---------------------------- MODULE Spec2Model ----------------------------
(***************************************************************************)
(* A model of src/src/main.c: the frame loop of the raylib/ODE vehicle     *)
(* demo.                                                                   *)
(*                                                                         *)
(* One iteration of the main loop (main.c:304-465) runs, in order,         *)
(*   - the flip monitor            (main.c:314-327)                        *)
(*   - the accel / steer update    (main.c:331-345)                        *)
(*   - the debris pass             (main.c:361-386)                        *)
(*   - the fixed-step driver       (main.c:395-415), which calls           *)
(*     nearCallback                (main.c:75-117) from dSpaceCollide      *)
(*   - the draw section            (main.c:425-463)                        *)
(* The sections write disjoint program variables and meet only through the *)
(* ODE world, whose integrator is outside the repository and is modelled   *)
(* as a nondeterministic step.  Each section is therefore run once per     *)
(* frame in a specification of its own over the shared state:              *)
(*   Spec        the fixed-step driver with the collision callback         *)
(*   SpecFlip    the flip monitor                                          *)
(*   SpecAccel   the accel update                                          *)
(*   SpecDebris  the debris pass                                           *)
(*   SpecSteer   the steer update                                          *)
(*   SpecSpawn   the geometries and masses of the setup (main.c:219-281)   *)
(*                                                                         *)
(* Floating point values are fixed point integers:                         *)
(*   time      in units of 1/480 s   (physSlice = 1/240 s = 2)             *)
(*   accel     in units of 1/100                                           *)
(*   roll      in units of 1/1000 rad                                      *)
(*   lengths and speeds in units of 1/100                                  *)
(***************************************************************************)
EXTENDS Integers, Naturals, Sequences, FiniteSets

VARIABLES
    pc,            \* position of the fixed-step driver inside the frame
    frameTime,     \* main.c:293  accumulator of unconsumed real time
    pSteps,        \* main.c:396  per-frame step counter
    ticks,         \* dWorldQuickStep calls made in this frame (main.c:406)
    dropped,       \* accumulated time thrown away at main.c:412 in this frame
    warned,        \* the overload warning was drawn in the last frame (main.c:444)
    contactgroup,  \* main.c:51   the joints of the contact joint group, oldest first
    nearCalls,     \* nearCallback invocations made by the running dSpaceCollide
    jointSkips,    \* of these, the ones that returned at main.c:85
    made,          \* dJointCreateContact calls of the latest tick (main.c:112)
    owed,          \* real time added since the step cap was last hit, less
                   \* one physSlice for every physics tick made since then
    call,          \* main.c:81-105  the locals b1, b2 and numc of the latest
                   \* nearCallback call of the running dSpaceCollide, and the
                   \* number of joints that call added to the group
    fpc,           \* flip monitor: "monitor" before main.c:314, "physics" after :327
    roll,          \* main.c:317  roll of the chassis, in 1/1000 rad
    carFlipped,    \* main.c:297  number of frames car roll is >90
    streak,        \* consecutive evaluations that read the roll out of bound
    lastStreak,    \* the streak that the latest in-bound evaluation ended
    unflips,       \* unflipVehicle calls made during the current streak
    called,        \* the latest evaluation called unflipVehicle (main.c:326)
    accel,         \* main.c:287  in units of 1/100
    keyUp,         \* IsKeyDown(KEY_UP) as sampled by the latest frame
    keyDown,       \* IsKeyDown(KEY_DOWN) as sampled by the latest frame
    held,          \* frames, counted from accel = 0, on which only KEY_UP was
                   \* down; -1 when the run of such frames is broken
    dpc,           \* debris: "spawn" before main.c:228, "pass" inside the loop
                   \* of main.c:363, "physics" after it
    obj,           \* main.c:135  the debris bodies, obj[0] .. obj[numObj-1]
    di,            \* main.c:363  the loop index i of the debris pass
    spcdn,         \* main.c:361  IsKeyDown(KEY_SPACE) as sampled by the frame
    before,        \* the debris bodies as the running pass found them
    steer,         \* main.c:287  in units of 1/1000
    keyRight,      \* IsKeyDown(KEY_RIGHT) as sampled by the latest frame
    keyLeft,       \* IsKeyDown(KEY_LEFT) as sampled by the latest frame
    steerWas,      \* steer as the latest frame found it
    spc,           \* setup: "ground" before main.c:219, "spawn" inside the
                   \* loop of main.c:228, "tick" when the frame loop starts
    si,            \* main.c:228  the loop index i of the spawn loop
    space,         \* main.c:200  the ground and debris geometries of the
                   \* collision space, in the order of their creation
    mass           \* main.c:281  the mass set on each debris body, as the
                   \* sequence of the components that were added up

driverVars == <<pc, frameTime, pSteps, ticks, dropped, warned, contactgroup,
                nearCalls, jointSkips, made, call, owed>>
flipVars == <<fpc, roll, carFlipped, streak, lastStreak, unflips, called>>
accelVars == <<accel, keyUp, keyDown, held>>
debrisVars == <<dpc, obj, di, spcdn, before>>
steerVars == <<steer, keyRight, keyLeft, steerWas>>
spawnVars == <<spc, si, space, mass>>

vars == <<driverVars, flipVars, accelVars, debrisVars, steerVars, spawnVars>>

---------------------------------------------------------------------------
(* Program constants                                                       *)

\* main.c:295  const float physSlice = 1.0 / 240.0, in units of 1/480 s
physSlice == 2
\* main.c:296
maxPsteps == 6
\* main.c:73
MAX_CONTACTS == 8

\* main.c:325  if (carFlipped > 100)
flipFrames == 100
\* main.c:318  M_PI_2 - 0.001 = 1.569796..., in 1/1000 rad: an integer roll
\* exceeds it exactly when it exceeds 1569
rollBound == 1569
\* main.c:338-339  the steer delta .1, in units of 1/1000
steerStep == 100
\* main.c:341-342  the steer limit .5, in units of 1/1000
maxSteer == 500
\* main.c:334  if (accel > 75) accel = 75, in units of 1/100
maxAccel == 7500
\* main.c:335  if (accel < -25) accel = -25, in units of 1/100
minAccel == -2500
\* main.c:332-333  accel += 2.5 / accel -= 2.5, in units of 1/100
accelStep == 250
\* main.c:379  if (pos[1] < -10), in units of 1/100
floorY == -1000
\* main.c:368  v[1] < 10, in units of 1/100
velCap == 1000
\* main.c:368  pos[1] < 10, in units of 1/100
heightCap == 1000

(* Bounds of the model                                                     *)

\* the longest frame GetFrameTime() reports, in units of 1/480 s
MaxFrameTime == 15
\* the most candidate pairs one dSpaceCollide pass hands to nearCallback
MaxNear == 2
\* the longest run of out-of-bound roll readings that is followed
MaxFlipped == 102
\* the value at which the count of frames with only KEY_UP down saturates
MaxHeld == 40
\* main.c:57  int numObj = 300: the number of debris bodies
numObj == 2
\* a random fraction (rand() / RAND_MAX, dRandReal()) is one of
\* 0/RandDen, 1/RandDen, .., RandDen/RandDen
RandDen == 1

---------------------------------------------------------------------------
(* The world the collision callback sees                                   *)

\* bodies; NoBody is the null dBodyID of a geometry that has no body
NoBody == 0
Chassis == 1
Wheel == 2
Debris == 3

\* geometries of the space, and dGeomGetBody
ChassisGeom == 1
GroundGeom == 2
WheelGeom == 3
DebrisGeom == 4
Geoms == {ChassisGeom, GroundGeom, WheelGeom, DebrisGeom}

dGeomGetBody(o) ==
    CASE o = ChassisGeom -> Chassis
      [] o = GroundGeom -> NoBody
      [] o = WheelGeom -> Wheel
      [] o = DebrisGeom -> Debris

\* the non-contact joints of the world: the vehicle's wheel joint
Joints == {{Chassis, Wheel}}

\* dAreConnectedExcluding(b1, b2, dJointTypeContact): contact joints do not count
dAreConnectedExcluding(b1, b2) == {b1, b2} \in Joints

\* main.c:93-102: the surface parameters written into every dContact
\* (slip, erp, cfm and bounce in units of 1/10000)
Surface == [mu |-> 1000, slip1 |-> 1, slip2 |-> 10, soft_erp |-> 500,
            soft_cfm |-> 3, bounce |-> 1000, bounce_vel |-> 1000]

\* the numbers of contact points that can exist between two geometries
PointSamples == {0, 1, MAX_CONTACTS, MAX_CONTACTS + 1}

\* dCollide(o1, o2, MAX_CONTACTS, ...): at most MAX_CONTACTS points are returned
dCollideAll(points) == points
dCollide(points) == IF points > MAX_CONTACTS THEN MAX_CONTACTS ELSE points

\* main.c:84: the two bodies are connected by a joint that is not a contact
JointedNever(b1, b2) == FALSE
Jointed(b1, b2) ==
    b1 # NoBody /\ b2 # NoBody /\ dAreConnectedExcluding(b1, b2)

\* main.c:110-114: numc contact joints between b1 and b2 join the group
AddContacts(group, b1, b2, numc) ==
    group \o [i \in 1..numc |-> [b1 |-> b1, b2 |-> b2, surface |-> Surface]]

\* no nearCallback call has been made by the running dSpaceCollide; numc is
\* -1 as long as main.c:105 has not been reached
NoCall == [b1 |-> NoBody, b2 |-> NoBody, numc |-> -1, added |-> 0]

---------------------------------------------------------------------------
(* Initial state: main.c:287-297, before the first frame                   *)

Init ==
    /\ pc = "frame"
    /\ frameTime = 0
    /\ pSteps = 0
    /\ ticks = 0
    /\ dropped = 0
    /\ warned = FALSE
    /\ contactgroup = <<>>
    /\ nearCalls = 0
    /\ jointSkips = 0
    /\ made = 0
    /\ call = NoCall
    /\ owed = 0
    /\ fpc = "monitor"
    /\ roll = 0
    /\ carFlipped = 0
    /\ streak = 0
    /\ lastStreak = 0
    /\ unflips = 0
    /\ called = FALSE
    /\ accel = 0
    /\ keyUp = FALSE
    /\ keyDown = FALSE
    /\ held = 0
    /\ dpc = "spawn"
    /\ obj = <<>>
    /\ di = 0
    /\ spcdn = FALSE
    /\ before = <<>>
    /\ steer = 0
    /\ keyRight = FALSE
    /\ keyLeft = FALSE
    /\ steerWas = 0
    /\ spc = "ground"
    /\ si = 0
    /\ space = <<>>
    /\ mass = <<>>

---------------------------------------------------------------------------
(* The fixed-step driver, main.c:395-415                                   *)

notDriver == <<flipVars, accelVars, debrisVars, steerVars, spawnVars>>

\* main.c:395: frameTime += GetFrameTime()
Restart(ft, dt) == dt
Accumulate(ft, dt) == ft + dt

\* main.c:395-397: frameTime += GetFrameTime(); int pSteps = 0;
BeginFrame(dt) ==
    /\ pc = "frame"
    /\ frameTime' = Accumulate(frameTime, dt)
    /\ owed' = owed + dt
    /\ pSteps' = 0
    /\ ticks' = 0
    /\ dropped' = 0
    /\ pc' = "loop"
    /\ UNCHANGED <<warned, contactgroup, nearCalls, jointSkips, made, call>>
    /\ UNCHANGED notDriver

\* main.c:399: the loop condition
LoopGuard(ft) == ft > physSlice

\* main.c:399, condition true: dSpaceCollide starts
LoopEnter ==
    /\ pc = "loop"
    /\ LoopGuard(frameTime)
    /\ nearCalls' = 0
    /\ jointSkips' = 0
    /\ made' = 0
    /\ call' = NoCall
    /\ pc' = "collide"
    /\ UNCHANGED <<frameTime, pSteps, ticks, dropped, warned, contactgroup, owed>>
    /\ UNCHANGED notDriver

\* main.c:399, condition false: the loop ends
LoopExit ==
    /\ pc = "loop"
    /\ ~LoopGuard(frameTime)
    /\ pc' = "draw"
    /\ UNCHANGED <<frameTime, pSteps, ticks, dropped, warned, contactgroup,
                   nearCalls, jointSkips, made, call, owed>>
    /\ UNCHANGED notDriver

\* main.c:75-117: one call of nearCallback on a candidate pair.  c1 and c2
\* are the answers of checkColliding, points the contact points that exist.
nearCallback(o1, o2, c1, c2, points) ==
    /\ pc = "collide"
    /\ nearCalls < MaxNear
    /\ nearCalls' = nearCalls + 1
    /\ LET b1 == dGeomGetBody(o1)
           b2 == dGeomGetBody(o2)
           numc == dCollide(points)
       IN  /\ IF Jointed(b1, b2)
              THEN /\ jointSkips' = jointSkips + 1
                   /\ UNCHANGED <<contactgroup, made>>
              ELSE /\ UNCHANGED jointSkips
                   /\ IF c1 /\ c2
                      THEN /\ contactgroup' = AddContacts(contactgroup, b1, b2, numc)
                           /\ made' = made + numc
                      ELSE UNCHANGED <<contactgroup, made>>
           /\ call' = [b1 |-> b1, b2 |-> b2,
                       numc |-> IF ~Jointed(b1, b2) /\ c1 /\ c2 THEN numc ELSE -1,
                       added |-> Len(contactgroup') - Len(contactgroup)]
    /\ UNCHANGED <<pc, frameTime, pSteps, ticks, dropped, warned, owed>>
    /\ UNCHANGED notDriver

\* main.c:403: dSpaceCollide returns
CollideDone ==
    /\ pc = "collide"
    /\ pc' = "step"
    /\ call' = NoCall
    /\ UNCHANGED <<frameTime, pSteps, ticks, dropped, warned, contactgroup,
                   nearCalls, jointSkips, made, owed>>
    /\ UNCHANGED notDriver

\* main.c:406: dWorldQuickStep(world, physSlice)
QuickStep ==
    /\ pc = "step"
    /\ ticks' = ticks + 1
    /\ owed' = owed - physSlice
    /\ pc' = "empty"
    /\ UNCHANGED <<frameTime, pSteps, dropped, warned, contactgroup,
                   nearCalls, jointSkips, made, call>>
    /\ UNCHANGED notDriver

\* main.c:407: dJointGroupEmpty(contactgroup)
KeepGroup(group) == group
dJointGroupEmpty(group) == <<>>

\* main.c:411: the cap test on the incremented counter
CapNever(ps) == FALSE
CapHit(ps) == ps > maxPsteps

\* main.c:412: frameTime = 0
KeepRest(ft) == ft
DropRest(ft) == 0

\* main.c:407-414: empty the group, consume one slice, count, cap
EndTick ==
    /\ pc = "empty"
    /\ contactgroup' = dJointGroupEmpty(contactgroup)
    /\ pSteps' = pSteps + 1
    /\ IF CapHit(pSteps + 1)
       THEN /\ frameTime' = DropRest(frameTime - physSlice)
            /\ dropped' = (frameTime - physSlice) - DropRest(frameTime - physSlice)
            /\ owed' = 0
            /\ pc' = "draw"
       ELSE /\ frameTime' = frameTime - physSlice
            /\ UNCHANGED <<dropped, owed>>
            /\ pc' = "loop"
    /\ UNCHANGED <<ticks, warned, nearCalls, jointSkips, made, call>>
    /\ UNCHANGED notDriver

\* main.c:444: if (pSteps > maxPsteps), the test of the overload warning
OverloadedAtLeast(ps) == ps >= maxPsteps
Overloaded(ps) == ps > maxPsteps

\* main.c:425-463: the draw section with the overload warning of main.c:444
Draw ==
    /\ pc = "draw"
    /\ warned' = Overloaded(pSteps)
    /\ pc' = "frame"
    /\ UNCHANGED <<frameTime, pSteps, ticks, dropped, contactgroup,
                   nearCalls, jointSkips, made, call, owed>>
    /\ UNCHANGED notDriver

Next ==
    \/ \E dt \in 0..MaxFrameTime : BeginFrame(dt)
    \/ LoopEnter
    \/ LoopExit
    \/ \E o1 \in Geoms, o2 \in Geoms, c1 \in BOOLEAN, c2 \in BOOLEAN,
          points \in PointSamples :
          o1 < o2 /\ nearCallback(o1, o2, c1, c2, points)
    \/ CollideDone
    \/ QuickStep
    \/ EndTick
    \/ Draw

Spec == Init /\ [][Next]_vars

---------------------------------------------------------------------------
(* The flip monitor, main.c:314-327                                        *)

notFlip == <<driverVars, accelVars, debrisVars, steerVars, spawnVars>>

Abs(x) == IF x < 0 THEN -x ELSE x

\* roll angles the chassis is read at, in 1/1000 rad: upright, either side
\* of the bound on both signs, and upside down
RollSamples == {-3141, -1570, -1569, 0, 1569, 1570, 3141}

\* main.c:318: fabs(roll) > (M_PI_2-0.001)
OutOfBound(r) == Abs(r) > rollBound

\* main.c:319-321: the counter after an evaluation
CountDecay(n, out) == IF out THEN n + 1 ELSE IF n > 0 THEN n - 1 ELSE 0
Count(n, out) == IF out THEN n + 1 ELSE 0

\* main.c:325: if (carFlipped > 100)
TriggerAtLeast(n) == n >= flipFrames
Trigger(n) == n > flipFrames

\* unflipVehicle(car): the chassis is put upright, so its roll is 0
unflipVehicle(r) == 0

\* main.c:314-327: one evaluation of the roll
FlipMonitor ==
    /\ fpc = "monitor"
    /\ OutOfBound(roll) => carFlipped < MaxFlipped
    /\ LET out == OutOfBound(roll)
           n == Count(carFlipped, out)
       IN  /\ carFlipped' = n
           /\ streak' = IF out THEN streak + 1 ELSE 0
           /\ lastStreak' = IF out THEN 0 ELSE streak
           /\ called' = Trigger(n)
           /\ unflips' = IF out
                         THEN unflips + (IF Trigger(n) THEN 1 ELSE 0)
                         ELSE (IF Trigger(n) THEN 1 ELSE 0)
           /\ roll' = IF Trigger(n) THEN unflipVehicle(roll) ELSE roll
    /\ fpc' = "physics"
    /\ UNCHANGED notFlip

\* main.c:399-415: the ticks of the frame move the chassis; ODE's integrator
\* is outside the repository, so the next roll read is any of the samples
\* (or the same roll, when the frame runs no tick)
FlipPhysics(r) ==
    /\ fpc = "physics"
    /\ roll' = r
    /\ fpc' = "monitor"
    /\ UNCHANGED <<carFlipped, streak, lastStreak, unflips, called>>
    /\ UNCHANGED notFlip

NextFlip ==
    \/ FlipMonitor
    \/ \E r \in RollSamples : FlipPhysics(r)

SpecFlip == Init /\ [][NextFlip]_vars

---------------------------------------------------------------------------
(* The accel update, main.c:331-335                                        *)

notAccel == <<driverVars, flipVars, debrisVars, steerVars, spawnVars>>

\* x * num / den rounded to the nearest integer, halves away from zero: the
\* fixed point image of a float product
MulRound(x, num, den) ==
    IF x >= 0 THEN (2 * x * num + den) \div (2 * den)
              ELSE -((2 * (-x) * num + den) \div (2 * den))

\* main.c:331: accel *= .99
DampSubtract(a) == a - 99
Damp(a) == MulRound(a, 99, 100)

\* main.c:334-335: the clamp
ClampLow(a) == IF a < minAccel THEN minAccel ELSE a
ClampHigh(a) == IF a > maxAccel THEN maxAccel ELSE a
Clamp(a) == IF a > maxAccel THEN maxAccel ELSE IF a < minAccel THEN minAccel ELSE a

\* main.c:331-335 for the key states up and down
AccelAfter(a, up, down) ==
    Clamp(Damp(a) + (IF up THEN accelStep ELSE 0) - (IF down THEN accelStep ELSE 0))

AccelUpdate(up, down) ==
    /\ keyUp' = up
    /\ keyDown' = down
    /\ accel' = AccelAfter(accel, up, down)
    /\ held' = IF up /\ ~down /\ held >= 0
               THEN (IF held < MaxHeld THEN held + 1 ELSE held)
               ELSE (IF AccelAfter(accel, up, down) = 0 THEN 0 ELSE -1)
    /\ UNCHANGED notAccel

NextAccel == \E up \in BOOLEAN, down \in BOOLEAN : AccelUpdate(up, down)

SpecAccel == Init /\ [][NextAccel]_vars

---------------------------------------------------------------------------
(* The debris population, main.c:228-284 and main.c:361-386                *)

notDebris == <<driverVars, flipVars, accelVars, steerVars, spawnVars>>

Bodies == 0..(numObj - 1)
Fractions == 0..RandDen
Zero3 == <<0, 0, 0>>

\* main.c:63-66: rndf(min, max) for the random fraction r / RandDen
rndf(r, min, max) == (r * (max - min)) \div RandDen + min

\* dRandReal() * scale + offset for the random fraction r / RandDen; ODE's
\* dRandReal() is dRand() / 0xffffffff, a fraction of [0, 1], both ends
dRandReal(r, scale, offset) == (r * scale) \div RandDen + offset

\* main.c:229, 272-273: body i as the spawn loop leaves it
SpawnBody(i, rx, rz) ==
    [pos |-> <<dRandReal(rx, 4000, -500), (4 + (i \div 10)) * 100,
               dRandReal(rz, 4000, -500)>>,
     lin |-> Zero3, ang |-> Zero3, force |-> 0, enabled |-> TRUE]

\* main.c:228-284: the spawn loop
Spawn(rx, rz) ==
    /\ dpc = "spawn"
    /\ obj' = [i \in Bodies |-> SpawnBody(i, rx[i], rz[i])]
    /\ before' = [i \in Bodies |-> SpawnBody(i, rx[i], rz[i])]
    /\ di' = 0
    /\ dpc' = "pass"
    /\ UNCHANGED spcdn
    /\ UNCHANGED notDebris

\* main.c:373-374: the vertical component f*10 of the force on body i, per
\* unit of the body's mass, f = (6+(((float)i/numObj)*4)) * mass.mass
ForceY(i) == ((6 * numObj + 4 * i) * 1000) \div numObj

\* main.c:365-376: the impulse on body i; the velocity it tests is obj[0]'s
Impulse(o, i, sp) ==
    IF sp /\ o[0].lin[2] < velCap /\ o[i].pos[2] < heightCap
    THEN [o EXCEPT ![i].enabled = TRUE, ![i].force = @ + ForceY(i)]
    ELSE o

\* main.c:379: if (pos[1] < -10)
BelowOrAtFloor(y) == y <= floorY
BelowFloor(y) == y < floorY

\* main.c:381-384: the teleport of body i
Teleport(b, rx, ry, rz) ==
    [b EXCEPT !.pos = <<dRandReal(rx, 1000, -500), 1200 + rndf(ry, 100, 200),
                        dRandReal(rz, 1000, -500)>>,
              !.lin = Zero3,
              !.ang = Zero3]

\* main.c:379-385: the recycling of body i
Recycle(o, i, rx, ry, rz) ==
    IF BelowFloor(o[i].pos[2])
    THEN [o EXCEPT ![i] = Teleport(o[i], rx, ry, rz)]
    ELSE o

\* main.c:361: the frame samples the impulse key before the loop
DebrisBegin(sp) ==
    /\ dpc = "pass"
    /\ di = 0
    /\ before = obj
    /\ spcdn' = sp
    /\ di' = 0
    /\ dpc' = "loop"
    /\ UNCHANGED <<obj, before>>
    /\ UNCHANGED notDebris

\* main.c:363-386: one iteration of the debris loop
DebrisIter(rx, ry, rz) ==
    /\ dpc = "loop"
    /\ di < numObj
    /\ obj' = Recycle(Impulse(obj, di, spcdn), di, rx, ry, rz)
    /\ di' = di + 1
    /\ dpc' = IF di + 1 < numObj THEN "loop" ELSE "physics"
    /\ UNCHANGED <<spcdn, before>>
    /\ UNCHANGED notDebris

\* states the ticks of a frame leave a debris body in: fallen below the
\* floor, exactly at the floor, asleep on the ground, and flying upwards
DebrisSamples ==
    { [pos |-> <<3600, -1001, -600>>, lin |-> <<10, -900, 0>>,
       ang |-> <<0, 0, 30>>, force |-> 0, enabled |-> TRUE],
      [pos |-> <<3600, -1000, -600>>, lin |-> <<10, -900, 0>>,
       ang |-> <<0, 0, 30>>, force |-> 0, enabled |-> TRUE],
      [pos |-> <<100, 25, 200>>, lin |-> Zero3,
       ang |-> Zero3, force |-> 0, enabled |-> FALSE],
      [pos |-> <<100, 500, 200>>, lin |-> <<0, 1000, 0>>,
       ang |-> <<5, 0, 0>>, force |-> 0, enabled |-> TRUE] }

\* main.c:399-415: the ticks of the frame move the bodies and use up the
\* forces; ODE's integrator is outside the repository
DebrisPhysics(o) ==
    /\ dpc = "physics"
    /\ obj' = o
    /\ before' = o
    /\ di' = 0
    /\ dpc' = "pass"
    /\ UNCHANGED spcdn
    /\ UNCHANGED notDebris

NextDebris ==
    \/ \E rx \in [Bodies -> Fractions], rz \in [Bodies -> Fractions] : Spawn(rx, rz)
    \/ \E sp \in BOOLEAN : DebrisBegin(sp)
    \/ \E rx \in Fractions, ry \in Fractions, rz \in Fractions : DebrisIter(rx, ry, rz)
    \/ \E o \in [Bodies -> DebrisSamples] : DebrisPhysics(o)

SpecDebris == Init /\ [][NextDebris]_vars

---------------------------------------------------------------------------
(* The steering input, main.c:338-342                                      *)

notSteer == <<driverVars, flipVars, accelVars, debrisVars, spawnVars>>

\* main.c:340: steer *= .5.  The float product is exact; at the resolution
\* of the fixed point the half is cut toward zero.
SteerHalve(s) == IF s >= 0 THEN s \div 2 ELSE -((-s) \div 2)

\* main.c:340: !IsKeyDown(KEY_RIGHT) && !IsKeyDown(KEY_LEFT)
NetSteerZero(right, left) == right = left
NoSteerKey(right, left) == ~right /\ ~left

\* main.c:341-342: the clamp
SteerClampHigh(s) == IF s > maxSteer THEN maxSteer ELSE s
SteerClamp(s) ==
    IF s > maxSteer THEN maxSteer ELSE IF s < -maxSteer THEN -maxSteer ELSE s

\* main.c:338-342 for the key states right and left
SteerAfter(s, right, left) ==
    LET r == IF right THEN s - steerStep ELSE s
        l == IF left THEN r + steerStep ELSE r
        h == IF NoSteerKey(right, left) THEN SteerHalve(l) ELSE l
    IN  SteerClamp(h)

SteerUpdate(right, left) ==
    /\ keyRight' = right
    /\ keyLeft' = left
    /\ steerWas' = steer
    /\ steer' = SteerAfter(steer, right, left)
    /\ UNCHANGED notSteer

NextSteer == \E right \in BOOLEAN, left \in BOOLEAN : SteerUpdate(right, left)

SpecSteer == Init /\ [][NextSteer]_vars

---------------------------------------------------------------------------
(* The geometries and masses of the setup, main.c:219-281.  Lengths are in *)
(* units of 1/1000; the positions of the same loop are in SpecDebris.      *)

notSpawn == <<driverVars, flipVars, accelVars, debrisVars, steerVars>>

\* a geometry without a body: dGeomGetBody returns NULL
NoOwner == -1

\* main.c:232: the values typ is drawn at, both sides of every threshold
TypSamples == {0, 249, 250, 499, 500, 749, 750, 1000}

\* main.c:233-246: the shape class of typ
ShapeClass(typ) ==
    IF typ < 250 THEN "box"
    ELSE IF typ < 500 THEN "sphere"
    ELSE IF typ < 750 THEN "cylinder"
    ELSE "compound"

\* main.c:250-251, 254, 256: l/2
HalfLen(l) == l \div 2

\* main.c:255, 257, 265-266: l - 0.125
EndOffset(l) == l - 125

\* a geometry of the space: its shape, its dimensions, its offset along z
\* from its body, its body, and the spawn iteration that created it
Geom(class, dims, offset, body, slot) ==
    [class |-> class, dims |-> dims, offset |-> offset, body |-> body,
     slot |-> slot]

\* a mass component: dMassSetBox, dMassSetSphere, dMassSetCylinder along z,
\* and dMassTranslate along z
Mass(class, density, dims, offset) ==
    [class |-> class, density |-> density, dims |-> dims, offset |-> offset]

\* main.c:263-264: dGeomSetBody(geom2, obj[i]), dGeomSetBody(geom3, obj[i])
MemberBodyNone(i) == NoOwner
MemberBody(i) == i

\* main.c:233-269, 280: the geometries created for body i of shape class
\* class, with the random fractions d[1], d[2], d[3]
SpawnGeoms(i, class, d) ==
    IF class = "box"
    THEN << Geom("box", <<rndf(d[1], 250, 500), rndf(d[2], 250, 500),
                          rndf(d[3], 250, 500)>>, 0, i, i) >>
    ELSE IF class = "sphere"
    THEN << Geom("sphere", <<rndf(d[1], 125, 250)>>, 0, i, i) >>
    ELSE IF class = "cylinder"
    THEN LET l == rndf(d[1], 125, 500)
             r == rndf(d[2], 125, 500)
         IN  << Geom("cylinder", <<r, l>>, 0, i, i) >>
    ELSE LET l == rndf(d[1], 250, 500)
         IN  << Geom("cylinder", <<125, l>>, 0, i, i),
                Geom("sphere", <<HalfLen(l)>>, EndOffset(l), MemberBody(i), i),
                Geom("sphere", <<HalfLen(l)>>, -EndOffset(l), MemberBody(i), i) >>

\* main.c:233-261, 281: the mass set on a body of shape class class, with
\* the same random fractions
SpawnMass(class, d) ==
    IF class = "box"
    THEN << Mass("box", 10, <<rndf(d[1], 250, 500), rndf(d[2], 250, 500),
                              rndf(d[3], 250, 500)>>, 0) >>
    ELSE IF class = "sphere"
    THEN << Mass("sphere", 10, <<rndf(d[1], 125, 250)>>, 0) >>
    ELSE IF class = "cylinder"
    THEN LET l == rndf(d[1], 125, 500)
             r == rndf(d[2], 125, 500)
         IN  << Mass("cylinder", 10, <<r, l>>, 0) >>
    ELSE LET l == rndf(d[1], 250, 500)
         IN  << Mass("cylinder", 5, <<250, l>>, 0),
                Mass("sphere", 5, <<HalfLen(l)>>, EndOffset(l)),
                Mass("sphere", 5, <<HalfLen(l)>>, -EndOffset(l)) >>

\* main.c:219-224: the ground trimesh joins the space; no body is set on it
CreateGround ==
    /\ spc = "ground"
    /\ space' = Append(space, Geom("trimesh", <<>>, 0, NoOwner, NoOwner))
    /\ spc' = "spawn"
    /\ UNCHANGED <<si, mass>>
    /\ UNCHANGED notSpawn

\* main.c:229-281: one iteration of the spawn loop, geometry and mass
SpawnShape(typ, d) ==
    /\ spc = "spawn"
    /\ si < numObj
    /\ space' = space \o SpawnGeoms(si, ShapeClass(typ), d)
    /\ mass' = Append(mass, SpawnMass(ShapeClass(typ), d))
    /\ si' = si + 1
    /\ UNCHANGED spc
    /\ UNCHANGED notSpawn

\* main.c:228, 300: the spawn loop ends and the frame loop starts
SpawnDone ==
    /\ spc = "spawn"
    /\ si = numObj
    /\ spc' = "tick"
    /\ UNCHANGED <<si, space, mass>>
    /\ UNCHANGED notSpawn

NextSpawn ==
    \/ CreateGround
    \/ \E typ \in TypSamples, d \in [1..3 -> Fractions] : SpawnShape(typ, d)
    \/ SpawnDone

SpecSpawn == Init /\ [][NextSpawn]_vars

---------------------------------------------------------------------------
(* The claims about the fixed-step driver, under Spec                      *)

\* the stepping loop of the frame has ended
AfterLoop == pc \in {"draw", "frame"}

\* C1 as stated: after a frame's stepping loop the leftover accumulator is
\* in [0, physSlice), and exactly 0 if the step cap was hit in that frame.
C1_LeftoverBelowSlice ==
    AfterLoop =>
        /\ 0 <= frameTime /\ frameTime < physSlice
        /\ pSteps > maxPsteps => frameTime = 0

\* C1 amended: after a frame's stepping loop the leftover accumulator is in
\* the closed range [0, physSlice] (the loop runs while frameTime >
\* physSlice, so a leftover of exactly physSlice stays), and exactly 0 if
\* the step cap was hit in that frame.
C1_LeftoverAtMostSlice ==
    AfterLoop =>
        /\ 0 <= frameTime /\ frameTime <= physSlice
        /\ pSteps > maxPsteps => frameTime = 0

\* a frame that ran ticks and ends with a leftover of exactly physSlice
C1_Witness == pc = "draw" /\ ticks > 0 /\ frameTime = physSlice

\* C7: the driver stops stepping and discards the whole remaining
\* accumulator exactly when the per-frame step counter exceeds maxPsteps,
\* and no frame executes more than maxPsteps + 1 ticks.
C7_StepCap ==
    /\ ticks <= maxPsteps + 1
    /\ pSteps <= maxPsteps + 1
    /\ pSteps > maxPsteps => (AfterLoop /\ frameTime = 0 /\ dropped > 0)
    /\ dropped > 0 => pSteps > maxPsteps
    /\ AfterLoop => ticks = pSteps

\* a frame that ran maxPsteps + 1 ticks and threw more than a slice away
C7_Witness ==
    pc = "draw" /\ ticks = maxPsteps + 1 /\ dropped > physSlice /\ frameTime = 0

\* C9: the contact group is empty at the start of every collision pass and
\* at every frame boundary, also in a frame that hit the step cap; the
\* joints present at an integration are the ones its own tick created.
C9_ContactsLiveOneTick ==
    /\ pc \in {"frame", "loop", "draw"} => contactgroup = <<>>
    /\ (pc = "collide" /\ nearCalls = 0) => contactgroup = <<>>
    /\ pc \in {"collide", "step", "empty"} => Len(contactgroup) = made

\* a frame that hit the cap, whose last tick created contact joints
C9_Witness ==
    pc = "draw" /\ pSteps > maxPsteps /\ made > 0 /\ contactgroup = <<>>

\* C4: no joint of the contact group connects two bodies that a non-contact
\* joint already connects, whatever pairs and collidability answers the
\* callback was given.
C4_NoContactBetweenJointed ==
    \A i \in DOMAIN contactgroup :
        {contactgroup[i].b1, contactgroup[i].b2} \notin Joints

\* a collision pass that was handed the chassis-wheel pair, returned early
\* on it, and created contact joints for another pair
C4_Witness ==
    pc = "step" /\ jointSkips > 0 /\ nearCalls > jointSkips /\ made > 0

\* C14: a nearCallback call on a pair that is not excluded adds exactly one
\* contact joint per contact point dCollide returned, never more than
\* MAX_CONTACTS however many points exist, each attached to the two bodies
\* b1 and b2 of the pair and each with the same fixed surface parameters; a
\* call on an excluded pair adds none.
C14_ContactsPerPair ==
    (pc = "collide" /\ nearCalls > 0) =>
        /\ call.numc < 0 => call.added = 0
        /\ call.numc >= 0 =>
               /\ call.added = call.numc
               /\ call.added <= MAX_CONTACTS
               /\ call.added <= Len(contactgroup)
               /\ \A i \in 1..Len(contactgroup) :
                      i > Len(contactgroup) - call.added =>
                          /\ contactgroup[i].b1 = call.b1
                          /\ contactgroup[i].b2 = call.b2
        /\ \A i \in 1..Len(contactgroup) :
               /\ contactgroup[i].surface = contactgroup[1].surface
               /\ contactgroup[i].surface = Surface

\* a pair with the ground got the full MAX_CONTACTS joints after another
\* pair had got its own
C14_Witness ==
    /\ pc = "collide"
    /\ call.numc = MAX_CONTACTS
    /\ call.added = MAX_CONTACTS
    /\ call.b1 = NoBody
    /\ Len(contactgroup) > MAX_CONTACTS

\* C15: the overload warning is drawn in a frame exactly when the step cap
\* was hit in that frame; the frame after it starts from an accumulator of
\* 0, so all the time it accounts for is its own frame time.
C15_WarningIffCap ==
    /\ pc = "frame" =>
           /\ warned <=> dropped > 0
           /\ warned => frameTime = 0
    /\ (pc # "frame" /\ warned) =>
           frameTime + pSteps * physSlice + dropped <= MaxFrameTime

\* the frame after a warned frame has made ticks without hitting the cap
C15_Witness ==
    pc = "draw" /\ warned /\ ticks > 0 /\ pSteps <= maxPsteps /\ frameTime > 0

\* C18: as long as the step cap is not hit, the frame time added equals
\* physSlice times the ticks made plus the leftover in the accumulator;
\* simulated time never runs ahead of the time added, and time is thrown
\* away only in a frame that hit the cap.
C18_TimeConserved ==
    /\ owed = (IF pc = "empty" THEN frameTime - physSlice ELSE frameTime)
    /\ owed >= 0
    /\ dropped > 0 => (pSteps > maxPsteps /\ AfterLoop)

\* a frame made as many ticks as the cap allows and kept a whole slice
C18_Witness ==
    pc = "draw" /\ ticks = maxPsteps /\ dropped = 0 /\ owed = physSlice

---------------------------------------------------------------------------
(* The claims about the flip monitor, under SpecFlip                       *)

\* C2: counted from the Upright state, the recovery operation is invoked on
\* none of the first 100 consecutive out-of-bound evaluations and exactly
\* once by the 101st, on that evaluation.
C2_RecoveryOn101st ==
    /\ streak <= flipFrames => (unflips = 0 /\ ~called)
    /\ streak = flipFrames + 1 => (unflips = 1 /\ called)

\* the 101st consecutive out-of-bound evaluation has just run
C2_Witness == fpc = "physics" /\ streak = flipFrames + 1 /\ unflips = 1

\* C3: an evaluation whose roll is within bound leaves the counter at 0
\* whatever it was and does not invoke recovery; recovery is invoked only
\* by an evaluation that ends more than 100 consecutive out-of-bound ones.
C3_InBoundResets ==
    /\ streak = 0 => (carFlipped = 0 /\ ~called /\ unflips = 0)
    /\ called => streak > flipFrames
    /\ carFlipped = streak

\* 100 out-of-bound evaluations, then one within bound
C3_Witness ==
    fpc = "physics" /\ lastStreak = flipFrames /\ streak = 0 /\ carFlipped = 0

\* C8 as stated: once the recovery operation has been triggered the counter
\* is 0 again before the next evaluation, so that one inverted episode does
\* not invoke recovery on two successive evaluations.
C8_UprightAfterRecovery ==
    /\ called => carFlipped = 0
    /\ unflips <= 1

---------------------------------------------------------------------------
(* The claims about the accel update, under SpecAccel                      *)

\* C5: accel never exceeds maxAccel, and from accel = 0 with only
\* "accelerate" held on every frame it reaches maxAccel within MaxHeld
\* frames and stays there for as long as the input is held.
C5_AccelConverges ==
    /\ accel <= maxAccel
    /\ held = MaxHeld => accel = maxAccel

\* only "accelerate" has been held for MaxHeld frames since accel was 0
C5_Witness == held = MaxHeld /\ keyUp /\ ~keyDown /\ accel = maxAccel

\* C6: on a frame with neither accelerate nor brake held the magnitude of
\* accel does not grow and its sign does not change.
C6_ReleaseDecays ==
    [][(~keyUp' /\ ~keyDown') =>
          /\ Abs(accel') <= Abs(accel)
          /\ accel > 0 => accel' >= 0
          /\ accel < 0 => accel' <= 0
          /\ accel = 0 => accel' = 0]_vars

\* a frame with no input held has just left a negative accel negative
C6_Witness == ~keyUp /\ ~keyDown /\ accel < 0 /\ accel > minAccel

\* C13: after the update of every frame, whatever keys are down, also both
\* at once, the accel handed to updateVehicle is within [-25, 75].
C13_AccelInRange == minAccel <= accel /\ accel <= maxAccel

\* a frame with both keys down that left accel on the reverse side, after a
\* frame sequence that had driven it to the reverse limit
C13_Witness == keyUp /\ keyDown /\ accel = MulRound(minAccel, 99, 100)

---------------------------------------------------------------------------
(* The claims about the debris pass, under SpecDebris                      *)

\* body i was put back by the pass: inside the drop region, at rest
Recycled(i, xzMax) ==
    /\ -500 <= obj[i].pos[1] /\ obj[i].pos[1] <= xzMax
    /\ -500 <= obj[i].pos[3] /\ obj[i].pos[3] <= xzMax
    /\ 1300 <= obj[i].pos[2] /\ obj[i].pos[2] <= 1400
    /\ obj[i].lin = Zero3
    /\ obj[i].ang = Zero3

\* body i is where, and as fast as, the pass found it
Untouched(i) ==
    /\ obj[i].pos = before[i].pos
    /\ obj[i].lin = before[i].lin
    /\ obj[i].ang = before[i].ang

DebrisPassDid(xzMax) ==
    /\ dpc # "spawn" => DOMAIN obj = Bodies
    /\ dpc = "physics" =>
           \A i \in Bodies :
               /\ obj[i].pos[2] >= floorY
               /\ IF before[i].pos[2] < floorY
                  THEN Recycled(i, xzMax)
                  ELSE Untouched(i)

\* C10 as stated: after the debris pass every body that was below the floor
\* is at rest at a point with x,z in [-5,5) and y in [13,14], no body is
\* below the floor, the other bodies are where they were, and the
\* population is the numObj bodies of startup.
C10_RecycledHalfOpen == DebrisPassDid(499)

\* C10 amended: the same with x,z in the closed range [-5,5]: dRandReal()
\* can return 1, which puts x or z at exactly 5.
C10_RecycledClosed == DebrisPassDid(500)

\* a pass that recycled one body to x = 5 and left a body that was exactly
\* at the floor alone
C10_Witness ==
    /\ dpc = "physics"
    /\ \E i \in Bodies :
           before[i].pos[2] < floorY /\ obj[i].pos[1] = 500 /\ obj[i].lin = Zero3
    /\ \E j \in Bodies :
           before[j].pos[2] = floorY /\ obj[j].pos = before[j].pos

\* C11: while the impulse key is held a debris body receives the upward
\* force in a frame only if its own vertical velocity and its own height
\* are both below their caps, whatever the other bodies do; with the key up
\* no body receives a force.
C11_ImpulsePerBody ==
    dpc = "physics" =>
        \A i \in Bodies :
            obj[i].force > 0 =>
                /\ spcdn
                /\ before[i].lin[2] < velCap
                /\ before[i].pos[2] < heightCap

---------------------------------------------------------------------------
(* The claims about the steering input, under SpecSteer                    *)

\* C12: a frame moves steer by the delta 0.1 toward the one steer key that
\* is held, as far as the limit allows, and halves it when no steer key is
\* held; after the update steer is within [-0.5, 0.5]; with no steer key
\* held steer comes closer to 0 and never changes sign.
C12_SteerRule ==
    /\ -maxSteer <= steer /\ steer <= maxSteer
    /\ (keyLeft /\ ~keyRight) =>
           steer = (IF steerWas + steerStep > maxSteer
                    THEN maxSteer ELSE steerWas + steerStep)
    /\ (keyRight /\ ~keyLeft) =>
           steer = (IF steerWas - steerStep < -maxSteer
                    THEN -maxSteer ELSE steerWas - steerStep)
    /\ (~keyLeft /\ ~keyRight) =>
           /\ Abs(steerWas - 2 * steer) <= 1
           /\ steer * steerWas >= 0
           /\ steerWas # 0 => Abs(steer) < Abs(steerWas)

\* a frame without steer keys has halved the steer that stood at the limit
C12_Witness ==
    ~keyLeft /\ ~keyRight /\ steerWas = -maxSteer /\ 2 * steer = -maxSteer

\* C19: a frame with both steer keys held leaves steer as it found it: the
\* two deltas cancel and the halving is not applied.
C19_BothHeldUnchanged == (keyLeft /\ keyRight) => steer = steerWas

\* both keys were held on a steer that is neither neutral nor at the limit
C19_Witness ==
    keyLeft /\ keyRight /\ steer = steerWas /\ steer = 3 * steerStep

---------------------------------------------------------------------------
(* The claims about the setup, under SpecSpawn                             *)

\* the geometries the spawn iteration of body i created
GeomsOf(i) == {k \in 1..Len(space) : space[k].slot = i}

Shape(x) == [class |-> x.class, dims |-> x.dims, offset |-> x.offset]

\* C17: for every shape class and every drawn dimension, the mass of a
\* debris body has one component for each of its geometries, computed from
\* the extents, radius, length and offset the geometry was created with.
C17_MassMatchesGeometry ==
    spc = "tick" =>
        \A i \in Bodies :
            {Shape(space[k]) : k \in GeomsOf(i)} =
                {Shape(mass[i + 1][c]) : c \in 1..Len(mass[i + 1])}

=============================================================================
